---- MODULE Spec2Model ----
(***************************************************************************)
(* Model of modules/video_filter/deinterlace/deinterlace.c (VLC, revision  *)
(* 1.3): the filter's life cycle (Create, Init, Render, End, Destroy), the *)
(* per-frame driver Render with its polling acquisition loops, and the     *)
(* per-plane row loops RenderBob, RenderLinear, RenderMean, RenderBlend    *)
(* and Merge, at byte granularity.                                         *)
(***************************************************************************)
EXTENDS Integers, Sequences, FiniteSets, TLC

(***************************************************************************)
(* Bounds of the model.                                                    *)
(***************************************************************************)
MaxHeight == 4
MaxHalfWidth == 1
MaxDate == 2
MaxPitch == 2
MaxLines == 4
MaxDirectBuffers == 1

(***************************************************************************)
(* Program constants.                                                      *)
(***************************************************************************)
DEINTERLACE_DISCARD == 1
DEINTERLACE_MEAN == 2
DEINTERLACE_BLEND == 3
DEINTERLACE_BOB == 4
DEINTERLACE_LINEAR == 5
FirstFieldDelay == 20000
InitSuccess == 0
InitUnknownChroma == 0
InitNoVout == 0
Y_PLANE == 0
I_PLANES == 3
MergeUnroll == 8

Chroma420 == {"I420", "IYUV", "YV12"}
SupportedChromas == Chroma420 \cup {"I422"}
Chromas == SupportedChromas \cup {"RV32"}

Heights == 2..MaxHeight
Widths == {2 * k : k \in 1..MaxHalfWidth}
Dates == 0..MaxDate
Pitches == 1..MaxPitch
LineCounts == 1..MaxLines

Max(a, b) == IF a >= b THEN a ELSE b

\* C's integer division truncates toward zero; \div rounds down.
CDiv(a, b) == IF a >= 0 THEN a \div b ELSE -((-a) \div b)

(***************************************************************************)
(* Plane geometry of a planar picture of the given chroma, width and       *)
(* height as the host's picture allocator lays it out: a full-size luma    *)
(* plane and two chroma planes, half as wide, and half as high in 4:2:0.   *)
(***************************************************************************)
PlanePitch(chroma, width, i_plane) ==
  IF i_plane = Y_PLANE THEN width ELSE width \div 2

PlaneLines(chroma, height, i_plane) ==
  IF i_plane = Y_PLANE THEN height
  ELSE IF chroma = "I422" THEN height ELSE height \div 2

(***************************************************************************)
(* Memory.  A source byte is named by its offset in its plane.  A          *)
(* destination byte holds what was last stored in it: nothing yet, a copy  *)
(* of one source byte or the mean of two.  A walk over one plane carries   *)
(* the destination bytes, the two moving pointers (as offsets), and the    *)
(* highest end offset read from the source and written to the destination. *)
(***************************************************************************)
Unwritten == [op |-> "none", s1 |-> -1, s2 |-> -1]
Copied(s) == [op |-> "copy", s1 |-> s, s2 |-> s]
Merged(a, b) == [op |-> "merge", s1 |-> a, s2 |-> b]

StartWalk(p_in, size) ==
  [buf |-> [o \in 0..(size - 1) |-> Unwritten],
   p_out |-> 0, p_in |-> p_in, rd |-> 0, wr |-> 0]

\* pf_memcpy( p_out, p_in, n ) at the walk's pointers
MemCpy(st, n) ==
  IF n <= 0 THEN st
  ELSE [st EXCEPT
          !.buf = [o \in DOMAIN st.buf |->
                     IF o >= st.p_out /\ o < st.p_out + n
                     THEN Copied(st.p_in + (o - st.p_out))
                     ELSE st.buf[o]],
          !.rd = Max(@, st.p_in + n),
          !.wr = Max(@, st.p_out + n)]

\* one "*p_dest++ = ( *p_s1++ + *p_s2++ ) >> 1" of Merge
MergeByte(st, d, a, b) ==
  [st EXCEPT
     !.buf = [o \in DOMAIN st.buf |-> IF o = d THEN Merged(a, b) ELSE st.buf[o]],
     !.rd = Max(@, Max(a, b) + 1),
     !.wr = Max(@, d + 1)]

RECURSIVE MergeRun(_, _, _, _, _)
MergeRun(st, d, a, b, k) ==
  IF k = 0 THEN st
  ELSE MergeRun(MergeByte(st, d, a, b), d + 1, a + 1, b + 1, k - 1)

RECURSIVE MergeTail(_, _, _, _, _)
MergeTail(st, d, a, b, p_end) ==
  IF d < p_end
  THEN MergeTail(MergeByte(st, d, a, b), d + 1, a + 1, b + 1, p_end)
  ELSE st

RECURSIVE MergeUnrolled(_, _, _, _, _)
MergeUnrolled(st, d, a, b, p_end) ==
  IF d < p_end
  THEN MergeUnrolled(MergeRun(st, d, a, b, MergeUnroll),
                     d + MergeUnroll, a + MergeUnroll, b + MergeUnroll, p_end)
  ELSE MergeTail(st, d, a, b, p_end + MergeUnroll)

\* Merge( p_dest, p_s1, p_s2, i_bytes )
Merge(st, p_dest, p_s1, p_s2, i_bytes) ==
  MergeUnrolled(st, p_dest, p_s1, p_s2, p_dest + i_bytes - MergeUnroll)

Advance(st, d_out, d_in) ==
  [st EXCEPT !.p_out = @ + d_out, !.p_in = @ + d_in]

(***************************************************************************)
(* The row loops, one plane at a time.  sp is the source plane's pitch     *)
(* (p_pic->p[i_plane].i_pitch), dp and dl the destination plane's pitch    *)
(* and line count (p_outpic->p[i_plane]).  Every loop runs while the       *)
(* output pointer is below p_out_end and steps both pointers by the        *)
(* SOURCE pitch.                                                           *)
(***************************************************************************)
\* Mutant of BobLoop: the source pointer steps one row, not two.
RECURSIVE BobLoopEveryRow(_, _, _)
BobLoopEveryRow(st, p_out_end, sp) ==
  IF st.p_out < p_out_end
  THEN BobLoopEveryRow(Advance(MemCpy(st, sp), sp, sp), p_out_end, sp)
  ELSE st

RECURSIVE BobLoop(_, _, _)
BobLoop(st, p_out_end, sp) ==
  IF st.p_out < p_out_end
  THEN BobLoop(Advance(MemCpy(st, sp), sp, 2 * sp), p_out_end, sp)
  ELSE st

RECURSIVE BobLoopDoubled(_, _, _)
BobLoopDoubled(st, p_out_end, sp) ==
  IF st.p_out < p_out_end
  THEN BobLoopDoubled(
         Advance(MemCpy(Advance(MemCpy(st, sp), sp, 0), sp), sp, 2 * sp),
         p_out_end, sp)
  ELSE st

RenderBobPlane(chroma, i_plane, i_field, sp, dp, dl) ==
  LET st0 == StartWalk(i_field * sp, dp * dl)
      p_out_end == dp * dl
  IN  IF chroma \in Chroma420 THEN BobLoop(st0, p_out_end, sp)
      ELSE IF chroma = "I422"
      THEN IF i_plane = Y_PLANE
           THEN BobLoopDoubled(st0, p_out_end, sp)
           ELSE BobLoop(st0, p_out_end, sp)
      ELSE st0

RECURSIVE LinearLoop(_, _, _)
LinearLoop(st, p_out_end, sp) ==
  IF st.p_out < p_out_end
  THEN LET copied == Advance(MemCpy(st, sp), sp, 0)
           merged == Merge(copied, copied.p_out, copied.p_in,
                           copied.p_in + 2 * sp, sp)
       IN  LinearLoop(Advance(merged, sp, 2 * sp), p_out_end, sp)
  ELSE st

RenderLinearPlane(chroma, i_plane, i_field, sp, dp, dl) ==
  LET st0 == StartWalk(0, dp * dl)
      st1 == IF i_field = 1 THEN Advance(MemCpy(st0, sp), sp, sp) ELSE st0
      p_out_end == dp * dl - 2 * dp
      st2 == LinearLoop(st1, p_out_end, sp)
      st3 == MemCpy(st2, sp)
  IN  IF i_field = 0 THEN MemCpy(Advance(st3, sp, sp), sp) ELSE st3

RECURSIVE MeanLoop(_, _, _)
MeanLoop(st, p_out_end, sp) ==
  IF st.p_out < p_out_end
  THEN MeanLoop(Advance(Merge(st, st.p_out, st.p_in, st.p_in + sp, sp),
                        sp, 2 * sp),
                p_out_end, sp)
  ELSE st

RenderMeanPlane(chroma, i_plane, i_field, sp, dp, dl) ==
  MeanLoop(StartWalk(0, dp * dl), dp * dl, sp)

RECURSIVE BlendLoop(_, _, _)
BlendLoop(st, p_out_end, sp) ==
  IF st.p_out < p_out_end
  THEN BlendLoop(Advance(Merge(st, st.p_out, st.p_in, st.p_in + sp, sp),
                         sp, sp),
                 p_out_end, sp)
  ELSE st

RenderBlendPlane(chroma, i_plane, i_field, sp, dp, dl) ==
  BlendLoop(Advance(MemCpy(StartWalk(0, dp * dl), sp), sp, 0), dp * dl, sp)

\* The transform the switch of Render runs for a mode, on one plane.
TransformPlane(mode, chroma, i_plane, i_field, sp, dp, dl) ==
  CASE mode \in {DEINTERLACE_DISCARD, DEINTERLACE_BOB} ->
         RenderBobPlane(chroma, i_plane, i_field, sp, dp, dl)
    [] mode = DEINTERLACE_LINEAR ->
         RenderLinearPlane(chroma, i_plane, i_field, sp, dp, dl)
    [] mode = DEINTERLACE_MEAN ->
         RenderMeanPlane(chroma, i_plane, i_field, sp, dp, dl)
    [] mode = DEINTERLACE_BLEND ->
         RenderBlendPlane(chroma, i_plane, i_field, sp, dp, dl)

(***************************************************************************)
(* State.                                                                  *)
(*   phase      where the host is in the filter's life cycle               *)
(*   render     p_vout->render: the negotiated input format                *)
(*   output     p_vout->output, as Init fills it                           *)
(*   sys        p_vout->p_sys: i_mode, b_double_rate, last_date            *)
(*   sink       p_vout->p_sys->p_vout and the geometry it was opened with  *)
(*   i_outputpictures   I_OUTPUTPICTURES                                   *)
(*   init_ret   what Init returned (-1 before it ran)                      *)
(*   b_die, b_error   the host's cancellation flags                        *)
(*   pc         where the running Render call is                           *)
(*   call       the current (or last) Render call: its source date, how it *)
(*              ended, how many acquisitions failed and, in program order, *)
(*              the sink calls and transforms it made                      *)
(*   shown      the last two completed Render calls, oldest first: the     *)
(*              source date, whether it was the first completed call, and  *)
(*              the dates of the pictures it handed to the sink, in order  *)
(*   destroy_arg   the handle Destroy gave vout_DestroyThread ("none"     *)
(*              before Destroy ran)                                        *)
(*   plane      one plane walk on its own (specification PlaneSpec)        *)
(***************************************************************************)
VARIABLES phase, render, output, sys, sink, i_outputpictures, init_ret,
          b_die, b_error, pc, call, shown, destroy_arg,
          plane

vars == <<phase, render, output, sys, sink, i_outputpictures, init_ret,
          b_die, b_error, pc, call, shown, destroy_arg,
          plane>>

filterVars == <<phase, render, output, sys, sink, i_outputpictures, init_ret,
                b_die, b_error, pc, call, shown,
                destroy_arg>>

NoFormat == [i_chroma |-> "none", i_width |-> 0, i_height |-> 0]
NoSys == [i_mode |-> 0, b_double_rate |-> FALSE, last_date |-> 0]
\* p_sys->p_vout is not assigned before Init's vout_CreateThread
SinkUnset == [st |-> "unset", i_chroma |-> "none", i_width |-> 0, i_height |-> 0]
SinkNull == [st |-> "null", i_chroma |-> "none", i_width |-> 0, i_height |-> 0]
NoCall == [date |-> -1, outcome |-> "none", trace |-> <<>>]
NoPlane ==
  [fn |-> "none", chroma |-> "none", i_plane |-> 0, i_field |-> 0,
   sp |-> 0, dp |-> 0, dl |-> 0, done |-> FALSE, p_out |-> 0, rd |-> 0, wr |-> 0]

Methods ==
  {"NULL", "discard", "mean", "blend", "average", "combine-fields", "bob",
   "progressive-scan", "linear", "bogus"}

InitialState ==
  /\ phase = "unloaded"
  /\ render \in [i_chroma : Chromas, i_width : Widths, i_height : Heights]
  /\ output = NoFormat
  /\ sys = NoSys
  /\ sink = SinkUnset
  /\ i_outputpictures = 0
  /\ init_ret = -1
  /\ b_die = FALSE
  /\ b_error = FALSE
  /\ pc = "idle"
  /\ call = NoCall
  /\ shown = <<>>
  /\ destroy_arg = "none"
  /\ plane = NoPlane

(***************************************************************************)
(* Create                                                                  *)
(***************************************************************************)
ModeOf(psz_method) ==
  CASE psz_method = "discard" -> DEINTERLACE_DISCARD
    [] psz_method = "mean" -> DEINTERLACE_MEAN
    [] psz_method \in {"blend", "average", "combine-fields"} -> DEINTERLACE_BLEND
    [] psz_method \in {"bob", "progressive-scan"} -> DEINTERLACE_BOB
    [] psz_method = "linear" -> DEINTERLACE_LINEAR
    [] OTHER -> DEINTERLACE_DISCARD

DoubleRateOf(psz_method) ==
  psz_method \in {"bob", "progressive-scan", "linear"}

Create ==
  /\ phase = "unloaded"
  /\ \/ /\ phase' = "create_failed"
        /\ UNCHANGED sys
     \/ \E psz_method \in Methods :
          /\ phase' = "created"
          /\ sys' = [i_mode |-> ModeOf(psz_method),
                     b_double_rate |-> DoubleRateOf(psz_method),
                     last_date |-> 0]
  /\ UNCHANGED <<render, output, sink, i_outputpictures, init_ret, b_die,
                 b_error, pc, call, shown, destroy_arg,
                 plane>>

(***************************************************************************)
(* Init                                                                    *)
(***************************************************************************)
\* Mutant of SinkHeight: the mode alone decides, also for I422.
SinkHeightByModeOnly(i_chroma, i_mode, i_height) ==
  IF i_mode \in {DEINTERLACE_BOB, DEINTERLACE_MEAN, DEINTERLACE_DISCARD}
  THEN i_height \div 2
  ELSE i_height

\* the height Init asks vout_CreateThread for
SinkHeight(i_chroma, i_mode, i_height) ==
  IF i_chroma \in Chroma420
       /\ i_mode \in {DEINTERLACE_BOB, DEINTERLACE_MEAN, DEINTERLACE_DISCARD}
  THEN i_height \div 2
  ELSE i_height

\* the chroma Init asks vout_CreateThread for
SinkChroma(i_chroma) == IF i_chroma = "I422" THEN "I420" ELSE i_chroma

\* what Init returns: unknown chroma, no sink, or direct buffers allocated
InitResult(i_chroma, opened) ==
  IF i_chroma \notin SupportedChromas THEN InitUnknownChroma
  ELSE IF ~opened THEN InitNoVout
  ELSE InitSuccess

\* ALLOCATE_DIRECTBUFFERS( VOUT_MAX_PICTURES ): as many direct buffers as
\* the host could allocate
AllocateDirectBuffers == 0..MaxDirectBuffers

Init ==
  /\ phase = "created"
  /\ phase' = "inited"
  /\ IF render.i_chroma \notin SupportedChromas
     THEN /\ i_outputpictures' = 0
          /\ UNCHANGED <<output, sink>>
     ELSE /\ output' = render
          /\ \E opened \in BOOLEAN :
               IF opened
               THEN /\ sink' = [st |-> "open",
                                i_chroma |-> SinkChroma(render.i_chroma),
                                i_width |-> render.i_width,
                                i_height |-> SinkHeight(render.i_chroma,
                                                        sys.i_mode,
                                                        render.i_height)]
                    /\ i_outputpictures' \in AllocateDirectBuffers
               ELSE /\ sink' = SinkNull
                    /\ i_outputpictures' = 0
  /\ init_ret' = InitResult(render.i_chroma, sink'.st = "open")
  /\ UNCHANGED <<render, sys, b_die, b_error, pc, call, shown, destroy_arg, plane>>

(***************************************************************************)
(* Render                                                                  *)
(***************************************************************************)
Ev(op, pic, arg, fn) == [op |-> op, pic |-> pic, arg |-> arg, fn |-> fn]

\* the date of the second picture of a double-rate frame
SecondDate(date, last_date) ==
  IF last_date = 0
  THEN date + FirstFieldDelay
  ELSE CDiv(3 * date - last_date, 2)

\* Mutant of SwitchTrace: the double-rate modes hand the bottom picture to
\* the sink first.
SwitchTraceBottomFirst(i_mode) ==
  CASE i_mode = DEINTERLACE_DISCARD ->
         <<Ev("render", 0, 0, "RenderBob"), Ev("display", 0, -1, "")>>
    [] i_mode = DEINTERLACE_BOB ->
         <<Ev("render", 0, 0, "RenderBob"), Ev("render", 1, 1, "RenderBob"),
           Ev("display", 1, -1, ""), Ev("display", 0, -1, "")>>
    [] i_mode = DEINTERLACE_LINEAR ->
         <<Ev("render", 0, 0, "RenderLinear"),
           Ev("render", 1, 1, "RenderLinear"),
           Ev("display", 1, -1, ""), Ev("display", 0, -1, "")>>
    [] i_mode = DEINTERLACE_MEAN ->
         <<Ev("render", 0, 0, "RenderMean"), Ev("display", 0, -1, "")>>
    [] i_mode = DEINTERLACE_BLEND ->
         <<Ev("render", 0, 0, "RenderBlend"), Ev("display", 0, -1, "")>>
    [] OTHER -> <<>>

\* the switch on i_mode at the end of Render
SwitchTrace(i_mode) ==
  CASE i_mode = DEINTERLACE_DISCARD ->
         <<Ev("render", 0, 0, "RenderBob"), Ev("display", 0, -1, "")>>
    [] i_mode = DEINTERLACE_BOB ->
         <<Ev("render", 0, 0, "RenderBob"), Ev("display", 0, -1, ""),
           Ev("render", 1, 1, "RenderBob"), Ev("display", 1, -1, "")>>
    [] i_mode = DEINTERLACE_LINEAR ->
         <<Ev("render", 0, 0, "RenderLinear"), Ev("display", 0, -1, ""),
           Ev("render", 1, 1, "RenderLinear"), Ev("display", 1, -1, "")>>
    [] i_mode = DEINTERLACE_MEAN ->
         <<Ev("render", 0, 0, "RenderMean"), Ev("display", 0, -1, "")>>
    [] i_mode = DEINTERLACE_BLEND ->
         <<Ev("render", 0, 0, "RenderBlend"), Ev("display", 0, -1, "")>>
    [] OTHER -> <<>>

\* the planes of the source picture and of a picture of the sink
SrcPitch(i_plane) == PlanePitch(render.i_chroma, render.i_width, i_plane)
SrcLines(i_plane) == PlaneLines(render.i_chroma, render.i_height, i_plane)
DstPitch(i_plane) == PlanePitch(sink.i_chroma, sink.i_width, i_plane)
DstLines(i_plane) == PlaneLines(sink.i_chroma, sink.i_height, i_plane)

\* one transform of the running filter on one plane
Walk(i_field, i_plane) ==
  TransformPlane(sys.i_mode, render.i_chroma, i_plane, i_field,
                 SrcPitch(i_plane), DstPitch(i_plane), DstLines(i_plane))

\* a transform touches memory outside the source or the destination plane
Overruns(i_field) ==
  \E i_plane \in 0..(I_PLANES - 1) :
    LET w == Walk(i_field, i_plane)
    IN  \/ w.rd > SrcPitch(i_plane) * SrcLines(i_plane)
        \/ w.wr > DstPitch(i_plane) * DstLines(i_plane)

\* dates of the pictures a trace hands to the sink, in order
RECURSIVE DisplayedDates(_, _)
DisplayedDates(trace, dates) ==
  IF trace = <<>> THEN <<>>
  ELSE LET e == Head(trace)
       IN  (IF e.op = "display" THEN <<dates[e.pic + 1]>> ELSE <<>>)
             \o DisplayedDates(Tail(trace), dates)

\* the events of the switch up to its first transform that overruns
RECURSIVE UpToOverrun(_)
UpToOverrun(trace) ==
  IF trace = <<>> THEN <<>>
  ELSE LET e == Head(trace)
       IN  IF e.op = "render" /\ Overruns(e.arg) THEN <<e>>
           ELSE <<e>> \o UpToOverrun(Tail(trace))

LastTwo(s) == IF Len(s) > 2 THEN Tail(s) ELSE s

\* The rest of Render once every picture is acquired and dated.  A
\* transform that overruns a plane is undefined behaviour: the call either
\* carries on or the process faults there.
Finish(trace, dates) ==
  LET sw == SwitchTrace(sys.i_mode)
      ok == UpToOverrun(sw)
  IN  \/ /\ call' = [call EXCEPT !.outcome = "done", !.trace = trace \o sw]
         /\ shown' = LastTwo(Append(shown,
                                    [date |-> call.date,
                                     first |-> shown = <<>>,
                                     out |-> DisplayedDates(sw, dates)]))
         /\ pc' = "idle"
         /\ phase' = phase
      \/ /\ \E k \in 1..Len(sw) : sw[k].op = "render" /\ Overruns(sw[k].arg)
         /\ call' = [call EXCEPT !.outcome = "fault", !.trace = trace \o ok]
         /\ shown' = shown
         /\ pc' = "idle"
         /\ phase' = "crashed"

\* The host's output loop starts a frame only while neither flag is set;
\* a flag may be raised at any point of the call.
RenderCall ==
  /\ phase = "inited"
  /\ sink.st = "open"
  /\ i_outputpictures > 0
  /\ pc = "idle"
  /\ ~b_die
  /\ ~b_error
  /\ \E date \in Dates :
       call' = [date |-> date, outcome |-> "running", trace |-> <<>>]
  /\ pc' = "acq0"
  /\ UNCHANGED <<phase, render, output, sys, sink, i_outputpictures,
                 init_ret, b_die, b_error, shown, destroy_arg, plane>>

\* first loop: vout_CreatePicture returned a picture
CreatePicture0 ==
  /\ pc = "acq0"
  /\ LET trace == <<Ev("create", 0, -1, ""), Ev("date", 0, call.date, "")>>
     IN  IF sys.b_double_rate
         THEN /\ call' = [call EXCEPT !.trace = trace]
              /\ pc' = "acq1"
              /\ UNCHANGED <<phase, shown>>
         ELSE Finish(trace, <<call.date>>)
  /\ UNCHANGED <<render, output, sys, sink, i_outputpictures, init_ret,
                 b_die, b_error, destroy_arg, plane>>

\* Mutant of Poll0: the loop sleeps without looking at b_die and b_error.
Poll0Blind ==
  /\ pc = "acq0"
  /\ UNCHANGED vars

\* first loop: vout_CreatePicture returned NULL.  msleep changes nothing
\* of the state.
Poll0 ==
  /\ pc = "acq0"
  /\ IF b_die \/ b_error
     THEN /\ call' = [call EXCEPT !.outcome = "cancelled"]
          /\ pc' = "idle"
     ELSE UNCHANGED <<call, pc>>
  /\ UNCHANGED <<phase, render, output, sys, sink, i_outputpictures,
                 init_ret, b_die, b_error, shown,
                 destroy_arg, plane>>

\* second loop: vout_CreatePicture returned a picture
CreatePicture1 ==
  /\ pc = "acq1"
  /\ LET second == SecondDate(call.date, sys.last_date)
     IN  Finish(call.trace \o <<Ev("create", 1, -1, ""),
                                Ev("date", 1, second, "")>>,
                <<call.date, second>>)
  /\ sys' = [sys EXCEPT !.last_date = call.date]
  /\ UNCHANGED <<render, output, sink, i_outputpictures, init_ret, b_die,
                 b_error, destroy_arg, plane>>

\* Mutant of ReleaseFirst: the first picture is not released.
ReleaseFirstLeak(trace) == trace

\* vout_DestroyPicture( p_vout->p_sys->p_vout, pp_outpic[0] )
ReleaseFirst(trace) == trace \o <<Ev("destroy", 0, -1, "")>>

\* second loop: vout_CreatePicture returned NULL
Poll1 ==
  /\ pc = "acq1"
  /\ IF b_die \/ b_error
     THEN /\ call' = [call EXCEPT !.outcome = "cancelled",
                                  !.trace = ReleaseFirst(@)]
          /\ pc' = "idle"
     ELSE UNCHANGED <<call, pc>>
  /\ UNCHANGED <<phase, render, output, sys, sink, i_outputpictures,
                 init_ret, b_die, b_error, shown,
                 destroy_arg, plane>>

(***************************************************************************)
(* The host raising its flags, End and Destroy                             *)
(***************************************************************************)
SetDie ==
  /\ phase = "inited"
  /\ ~b_die
  /\ b_die' = TRUE
  /\ UNCHANGED <<phase, render, output, sys, sink, i_outputpictures,
                 init_ret, b_error, pc, call, shown,
                 destroy_arg, plane>>

SetError ==
  /\ phase = "inited"
  /\ ~b_error
  /\ b_error' = TRUE
  /\ UNCHANGED <<phase, render, output, sys, sink, i_outputpictures,
                 init_ret, b_die, pc, call, shown,
                 destroy_arg, plane>>

\* End frees the direct buffers.  The record of Render calls is kept for
\* one Init..End session.
End ==
  /\ phase = "inited"
  /\ pc = "idle"
  /\ phase' = "ended"
  /\ call' = NoCall
  /\ shown' = <<>>
  /\ UNCHANGED <<render, output, sys, sink, i_outputpictures, init_ret,
                 b_die, b_error, pc, destroy_arg, plane>>

\* vout_DestroyThread on a handle that is NULL or was never assigned is
\* undefined behaviour: the process faults or carries on.
Destroy ==
  /\ phase = "ended"
  /\ destroy_arg' = sink.st
  /\ IF sink.st = "open"
     THEN /\ sink' = [sink EXCEPT !.st = "destroyed"]
          /\ phase' = "destroyed"
     ELSE /\ UNCHANGED sink
          /\ phase' \in {"destroyed", "crashed"}
  /\ UNCHANGED <<render, output, sys, i_outputpictures, init_ret, b_die,
                 b_error, pc, call, shown, plane>>

Next ==
  \/ Create
  \/ Init
  \/ RenderCall
  \/ CreatePicture0
  \/ Poll0
  \/ CreatePicture1
  \/ Poll1
  \/ SetDie
  \/ SetError
  \/ End
  \/ Destroy

Spec == InitialState /\ [][Next]_vars

\* The rendering thread keeps running: a call in an acquisition loop goes
\* round the loop again.  Whether the sink has a picture to give is up to
\* the sink, so nothing is assumed of CreatePicture0 and CreatePicture1.
RenderStep == Poll0 \/ Poll1

FairSpec == Spec /\ WF_vars(RenderStep)

(***************************************************************************)
(* One plane walk on its own, for any source pitch and any destination     *)
(* pitch and line count.                                                   *)
(***************************************************************************)
PlaneInputs ==
  [fn : {"RenderBob", "RenderLinear", "RenderMean", "RenderBlend"},
   chroma : SupportedChromas, i_plane : 0..(I_PLANES - 1), i_field : 0..1,
   sp : Pitches, dp : Pitches, dl : LineCounts,
   done : {FALSE}, p_out : {0}, rd : {0}, wr : {0}]

PlaneStart ==
  /\ phase = "unloaded"
  /\ render = [i_chroma |-> "I420", i_width |-> 2, i_height |-> 2]
  /\ output = NoFormat
  /\ sys = NoSys
  /\ sink = SinkUnset
  /\ i_outputpictures = 0
  /\ init_ret = -1
  /\ b_die = FALSE
  /\ b_error = FALSE
  /\ pc = "idle"
  /\ call = NoCall
  /\ shown = <<>>
  /\ destroy_arg = "none"
  /\ plane \in PlaneInputs

Walked(w) ==
  [plane EXCEPT !.done = TRUE, !.p_out = w.p_out, !.rd = w.rd, !.wr = w.wr]

WalkBob ==
  /\ plane.fn = "RenderBob"
  /\ ~plane.done
  /\ plane' = Walked(RenderBobPlane(plane.chroma, plane.i_plane, plane.i_field,
                                    plane.sp, plane.dp, plane.dl))
  /\ UNCHANGED filterVars

WalkLinear ==
  /\ plane.fn = "RenderLinear"
  /\ ~plane.done
  /\ plane' = Walked(RenderLinearPlane(plane.chroma, plane.i_plane,
                                       plane.i_field, plane.sp, plane.dp,
                                       plane.dl))
  /\ UNCHANGED filterVars

WalkMean ==
  /\ plane.fn = "RenderMean"
  /\ ~plane.done
  /\ plane' = Walked(RenderMeanPlane(plane.chroma, plane.i_plane,
                                     plane.i_field, plane.sp, plane.dp,
                                     plane.dl))
  /\ UNCHANGED filterVars

WalkBlend ==
  /\ plane.fn = "RenderBlend"
  /\ ~plane.done
  /\ plane' = Walked(RenderBlendPlane(plane.chroma, plane.i_plane,
                                      plane.i_field, plane.sp, plane.dp,
                                      plane.dl))
  /\ UNCHANGED filterVars

PlaneNext == WalkBob \/ WalkLinear \/ WalkMean \/ WalkBlend

PlaneSpec == PlaneStart /\ [][PlaneNext]_vars

(***************************************************************************)
(* Properties.                                                             *)
(***************************************************************************)
Planes == 0..(I_PLANES - 1)
Cancelled == b_die \/ b_error
Count(trace, op, pic) ==
  Cardinality({k \in 1..Len(trace) : trace[k].op = op /\ trace[k].pic = pic})
\* source dates of the calls in shown, and the dates they handed to the
\* sink, in submission order
InDates == [i \in 1..Len(shown) |-> shown[i].date]
OutDates ==
  IF Len(shown) = 2 THEN shown[1].out \o shown[2].out
  ELSE IF Len(shown) = 1 THEN shown[1].out ELSE <<>>
Increasing(s) == \A i \in 1..(Len(s) - 1) : s[i] < s[i + 1]

\* C1: in a render call whose destination has the geometry Init asked the
\* sink for, every transform reads only inside each source plane and
\* writes only inside each destination plane, [0, pitch*lines).
C1_AccessesInsidePlanes ==
  \A k \in 1..Len(call.trace) :
    call.trace[k].op = "render" =>
      \A i_plane \in Planes :
        LET w == Walk(call.trace[k].arg, i_plane)
        IN  /\ w.rd <= SrcPitch(i_plane) * SrcLines(i_plane)
            /\ w.wr <= DstPitch(i_plane) * DstLines(i_plane)

\* C2: when the source dates of completed double-rate calls are strictly
\* increasing, the dates of the pictures they handed to the sink are
\* strictly increasing in submission order, and the second picture of the
\* first frame is dated 20000 after its source.
C2_OutputDatesIncrease ==
  (sys.b_double_rate /\ Increasing(InDates))
    => /\ Increasing(OutDates)
       /\ (shown # <<>> /\ shown[1].first)
            => shown[1].out[2] = shown[1].date + FirstFieldDelay

\* C3: a completed double-rate call with source date C dates its second
\* picture C + 20000 when no earlier double-rate call recorded a date, and
\* floor((3*C - P) / 2) when the latest earlier one recorded P (0 included);
\* afterwards the recorded date is C.
C3_SecondDate ==
  (sys.b_double_rate /\ call.outcome = "done")
    => LET n == Len(shown)
           C == shown[n].date
       IN  /\ \E k \in 1..Len(call.trace) :
                call.trace[k] =
                  Ev("date", 1,
                     IF shown[n].first THEN C + FirstFieldDelay
                     ELSE (3 * C - shown[n - 1].date) \div 2,
                     "")
           /\ sys.last_date = C

\* C4: when a render call returns, every picture it acquired has been
\* handed to the sink exactly once or released exactly once; a call
\* cancelled in its second acquisition released the first picture once
\* and handed nothing to the sink.
C4_NoLeakAtReturn ==
  (pc = "idle" /\ call.outcome \in {"done", "cancelled"})
    => /\ \A pic \in 0..1 :
            /\ Count(call.trace, "create", pic) <= 1
            /\ Count(call.trace, "display", pic)
                 + Count(call.trace, "destroy", pic)
                 = Count(call.trace, "create", pic)
       /\ (call.outcome = "cancelled" /\ Count(call.trace, "create", 0) = 1)
            => /\ Count(call.trace, "destroy", 0) = 1
               /\ \A pic \in 0..1 : Count(call.trace, "display", pic) = 0

C4_CancelledInSecondLoop ==
  /\ pc = "idle"
  /\ call.outcome = "cancelled"
  /\ Count(call.trace, "create", 0) = 1
  /\ Count(call.trace, "destroy", 0) = 1

C6_UnsupportedRejected ==
  (init_ret # -1 /\ render.i_chroma \notin SupportedChromas)
    => /\ init_ret # InitSuccess
       /\ sink.st # "open"
       /\ i_outputpictures = 0

\* C7: a render call that completes acquires and hands to the sink exactly
\* one picture under Discard, Mean and Blend and exactly two under Bob and
\* Linear; picture 0 is dated with the source date; each picture is handed
\* over after the transform into it (of field 0 into picture 0, of field 1
\* into picture 1), and picture 0 before picture 1.
C7_SubmissionOrder ==
  call.outcome = "done"
    => LET n == IF sys.i_mode \in {DEINTERLACE_BOB, DEINTERLACE_LINEAR}
                THEN 2 ELSE 1
           t == call.trace
           At(op, pic) == CHOOSE k \in 1..Len(t) : t[k].op = op /\ t[k].pic = pic
       IN  /\ \A pic \in 0..1 :
                /\ Count(t, "create", pic) = (IF pic < n THEN 1 ELSE 0)
                /\ Count(t, "display", pic) = (IF pic < n THEN 1 ELSE 0)
                /\ Count(t, "render", pic) = (IF pic < n THEN 1 ELSE 0)
                /\ Count(t, "destroy", pic) = 0
           /\ Count(t, "date", 0) = 1
           /\ t[At("date", 0)].arg = call.date
           /\ \A pic \in 0..(n - 1) :
                /\ At("create", pic) < At("render", pic)
                /\ At("render", pic) < At("display", pic)
                /\ t[At("render", pic)].arg = pic
           /\ n = 2 => At("display", 0) < At("display", 1)

C7_DoubleRateDone ==
  /\ call.outcome = "done"
  /\ sys.i_mode = DEINTERLACE_LINEAR
  /\ Count(call.trace, "display", 1) = 1

\* the source row RenderBob is to show in a destination row
BobSourceRow(i_plane, i_field, row) ==
  IF render.i_chroma = "I422" /\ i_plane = Y_PLANE
  THEN 2 * (row \div 2) + i_field
  ELSE 2 * row + i_field

\* C8 (as amended): Discard hands over one picture made of field 0, Bob
\* that picture and then one made of field 1.  In every plane of I420,
\* IYUV and YV12 and in the chroma planes of I422, destination row i is
\* source row 2*i + field; in the luma plane of I422 every selected row is
\* stored twice: destination rows 2*i and 2*i + 1 are source row
\* 2*i + field, wherever the source plane has that row.
C8_BobRows ==
  (call.outcome = "done" /\ sys.i_mode \in {DEINTERLACE_DISCARD, DEINTERLACE_BOB})
    => /\ SelectSeq(call.trace, LAMBDA e : e.op = "render")
            = IF sys.i_mode = DEINTERLACE_DISCARD
              THEN <<Ev("render", 0, 0, "RenderBob")>>
              ELSE <<Ev("render", 0, 0, "RenderBob"),
                     Ev("render", 1, 1, "RenderBob")>>
       /\ \A i_field \in (IF sys.i_mode = DEINTERLACE_BOB THEN {0, 1} ELSE {0}) :
            \A i_plane \in Planes :
              LET buf == Walk(i_field, i_plane).buf
                  dp == DstPitch(i_plane)
              IN  /\ DOMAIN buf = 0..(dp * DstLines(i_plane) - 1)
                  /\ \A o \in DOMAIN buf :
                       LET sr == BobSourceRow(i_plane, i_field, o \div dp)
                       IN  /\ sr < SrcLines(i_plane)
                             => buf[o] = Copied(sr * SrcPitch(i_plane) + (o % dp))
                           /\ (render.i_chroma \in Chroma420 \/ i_plane # Y_PLANE)
                             => sr < SrcLines(i_plane)

C8_BobBothFields ==
  /\ call.outcome = "done"
  /\ sys.i_mode = DEINTERLACE_BOB
  /\ render.i_chroma = "I422"
  /\ render.i_height = 4
  /\ Len(OutDates) = 2

\* C8 as claimed: in every plane of every supported format, destination
\* row i of the picture of a field is source row 2*i + field.
C8_Original ==
  (call.outcome = "done" /\ sys.i_mode \in {DEINTERLACE_DISCARD, DEINTERLACE_BOB})
    => \A i_field \in (IF sys.i_mode = DEINTERLACE_BOB THEN {0, 1} ELSE {0}) :
         \A i_plane \in Planes :
           LET buf == Walk(i_field, i_plane).buf
               dp == DstPitch(i_plane)
           IN  \A o \in DOMAIN buf :
                 buf[o] = Copied((2 * (o \div dp) + i_field) * SrcPitch(i_plane)
                                 + (o % dp))

\* C9: a turn of an acquisition loop that gets no picture while the host's
\* die or error flag is set makes the call return, cancelled, with nothing
\* handed to the sink; and once a flag is set a call that keeps polling
\* always returns.
C9_CancelObserved ==
  /\ [][(/\ pc # "idle"
          /\ Cancelled
          /\ b_die' = b_die
          /\ b_error' = b_error
          /\ \A pic \in 0..1 :
               Count(call'.trace, "create", pic)
                 = Count(call.trace, "create", pic))
          => /\ pc' = "idle"
             /\ call'.outcome = "cancelled"
             /\ \A pic \in 0..1 : Count(call'.trace, "display", pic) = 0
             /\ shown' = shown]_vars
  /\ (Cancelled /\ pc # "idle") ~> (pc = "idle")

C9_CancelledWhilePolling ==
  /\ pc = "idle"
  /\ Cancelled
  /\ call.outcome = "cancelled"
  /\ call.trace = <<>>

\* C10: whatever the pitches and line counts of the two planes, no row
\* loop writes a byte at or beyond the end of the destination plane.
C10_NoWritePastDestination ==
  plane.done => plane.wr <= plane.dp * plane.dl

\* C11: in every lifecycle Create, Init, Render calls, End, Destroy, those
\* in which Init opened no sink included, the handle Destroy gives
\* vout_DestroyThread is a sink Init opened (never a NULL or never-assigned
\* handle), and once Destroy has run an opened sink has been torn down.
C11_DestroyOnlyCreatedSink ==
  /\ destroy_arg \in {"none", "open"}
  /\ phase = "destroyed" => sink.st = "destroyed"
  /\ sink.st = "destroyed" => destroy_arg = "open"
====
